---- MODULE Spec2Model ----
(***************************************************************************)
(* Equipment tracker (src/app.py): the equipment table, the history log,   *)
(* the event checklist and the Flask handlers that change them.            *)
(*                                                                         *)
(* Identifiers are integers: an equipment id 'EQ<ms>' is the clock value   *)
(* it was generated from, an event id 'EV<ms>' likewise; 0 stands for the  *)
(* empty string / missing JSON field (falsy in Python).                    *)
(***************************************************************************)
EXTENDS Integers, Sequences, FiniteSets, TLC

\* ---------------------------------------------------------------- bounds
MaxTime == 3      \* the clock runs 1..MaxTime: at most MaxTime timestamped writes
MaxRound == 5     \* the same, for the runs of scans at one site
MaxQty == 2       \* largest total quantity a request registers
MaxConc == 4      \* the clock of the runs with overlapping requests
MaxList == 5      \* the clock of the runs over checklists and templates
NumProcs == 2     \* requests served at once (app.run is threaded)

\* ------------------------------------------------------------ input sets
NULL == "NULL"                         \* Python None / SQL NULL, in a text column
NoCategory == 0                        \* NULL category_id
NoFile == "no file"                    \* 'photo' not in request.files
ALLOWED_EXTENSIONS == {"png", "jpg", "jpeg", "gif", "webp"}
NoCode == 0                            \* '' : data.get('code') is falsy
NoUser == 0                            \* 'user_id' not in session
AdminUser == 1                         \* the id of the default admin user
NoEvent == 0                           \* '' : data.get('event_id', '')
EventIds == {NoEvent, 1}               \* 1 is an event once create_event ran at time 1
Scanners == {"Unknown User"}
\* where a scan is made: at the dock with no event, or on the truck of event 1
Sites == {<<"", NoEvent>>, <<"TruckA", 1>>}
Quantities == (-1)..(MaxQty + 1)       \* requested scan quantity, unvalidated
Actions == {"", "CHECK_OUT", "CHECK_IN"}
Names == {"", "Mic"}
AddQuantities == 0..MaxQty

VARIABLES
    equipment,          \* table equipment: id -> row
    equipment_history,  \* table equipment_history, in rowid order
    event_equipment,    \* table event_equipment: set of rows
    ee_seq,             \* sqlite_sequence of event_equipment (AUTOINCREMENT)
    events,             \* table events: id -> name
    categories,         \* table categories: id -> name
    now,                \* datetime.now(): a request that commits finds it moved on
    request,            \* the last HTTP request (request.json and the route)
    response,           \* the response it got
    pc,                 \* per request thread: the statement it is about to run
    local,              \* per request thread: the locals of scan_equipment
    txn,                \* the open write transaction: its connection and what it sees
    event_templates,    \* table event_templates: id -> name
    template_items,     \* table template_items: set of rows
    ti_seq,             \* sqlite_sequence of template_items (AUTOINCREMENT)
    session             \* the client's session cookie: its user_id, or none

vars == <<equipment, equipment_history, event_equipment, ee_seq, events, categories, now,
          request, response, pc, local, txn, event_templates, template_items, ti_seq,
          session>>

\* what a handler that is not a template route leaves untouched
templates == <<event_templates, template_items, ti_seq>>

\* what a handler that runs alone leaves untouched
threads == <<pc, local, txn>>

\* ------------------------------------------------------------- responses
NoMessage == [form |-> "", k |-> 0, m |-> 0, n |-> 0, to |-> ""]
NoSnapshot == [id |-> 0, status |-> "", location |-> "", quantity |-> 0,
               quantity_out |-> 0, quantity_available |-> 0]

Response(op, status, error) ==
    [op |-> op, status |-> status, error |-> error, available |-> 0, added |-> 0,
     message |-> NoMessage, equipment |-> NoSnapshot]

\* ------------------------------------------------------ request threads
Procs == 1..NumProcs

NoRow == [name |-> "", status |-> "", location |-> "", last_updated |-> 0, photo |-> NULL,
          quantity |-> 0, quantity_out |-> 0, category_id |-> NoCategory]

NoData == [fields |-> {}, name |-> "", quantity |-> 0, category_id |-> NoCategory]

NoLocal ==
    [op |-> "", data |-> NoData, code |-> NoCode, location |-> "", event_id |-> NoEvent, scanned_by |-> "",
     requested |-> 0, explicit_action |-> "", equipment |-> NoRow, event_name |-> NULL,
     timestamp |-> 0, is_checking_out |-> FALSE, quantity |-> 0, new_quantity_out |-> 0,
     new_status |-> "", new_location |-> "", message |-> NoMessage, existing |-> FALSE,
     failed_at |-> "", response |-> Response("", 0, "")]

Tables(e, h, ee, seq) ==
    [equipment |-> e, equipment_history |-> h, event_equipment |-> ee, ee_seq |-> seq]

NoTxn == [owner |-> 0, tables |-> Tables(<<>>, <<>>, {}, 0)]

\* ------------------------------------------------------------------ init
Init ==
    /\ equipment = <<>>
    /\ equipment_history = <<>>
    /\ event_equipment = {}
    /\ ee_seq = 0
    /\ events = <<>>
    /\ categories = <<>>
    /\ now = 1
    /\ request = [op |-> ""]
    /\ response = Response("", 0, "")
    /\ pc = [p \in Procs |-> "idle"]
    /\ local = [p \in Procs |-> NoLocal]
    /\ txn = NoTxn
    /\ event_templates = <<>>
    /\ template_items = {}
    /\ ti_seq = 0
    /\ session = NoUser

\* ---------------------------------------------------------- add_equipment
AddQuantity(quantity) == IF quantity < 1 THEN 1 ELSE quantity

\* lines 27-28
allowed_file(ext) == ext \in ALLOWED_EXTENSIONS

\* lines 461-469: the stored photo is '<id>.<ext>', kept as its extension
AddPhoto(file) == IF file /= NoFile /\ file /= "" /\ allowed_file(file) THEN file ELSE NULL

add_equipment(name, quantity, category_id, file) ==
    /\ request' = [op |-> "add_equipment", name |-> name, quantity |-> quantity,
                   category_id |-> category_id, file |-> file]
    /\ IF name = ""
       THEN /\ response' = Response("add_equipment", 400, "Name is required")
            /\ UNCHANGED <<equipment, now>>
       ELSE /\ equipment' = (now :> [name |-> name, status |-> "IN", location |-> "Warehouse",
                                     last_updated |-> now, photo |-> AddPhoto(file),
                                     quantity |-> AddQuantity(quantity), quantity_out |-> 0,
                                     category_id |-> category_id]) @@ equipment
            /\ response' = Response("add_equipment", 200, "")
            /\ now' = now + 1
    /\ UNCHANGED <<equipment_history, event_equipment, ee_seq, events, categories>>

\* --------------------------------------------------------- scan_equipment
Available(row) == row.quantity - row.quantity_out

\* a direction taken from the status alone
IsCheckingOutByStatus(row, explicit_action) ==
    IF row.status = "IN" THEN TRUE
    ELSE IF row.status = "OUT" THEN FALSE
    ELSE Available(row) > 0

\* lines 681-702: explicit action, else inferred from the status
IsCheckingOut(row, explicit_action) ==
    IF explicit_action = "CHECK_OUT" THEN TRUE
    ELSE IF explicit_action = "CHECK_IN" THEN FALSE
    ELSE IF row.status = "IN" THEN TRUE
    ELSE IF row.status = "OUT" THEN FALSE
    ELSE Available(row) > 0

\* an off-by-one availability test
InsufficientAvailabilityOffByOne(quantity, available) == quantity > available + 1

\* line 706
InsufficientAvailability(quantity, available) == quantity > available

\* lines 712-716
CheckOutStatus(new_quantity_out, total_qty) ==
    IF new_quantity_out >= total_qty THEN "OUT" ELSE "PARTIAL"

\* a check-out that stores the location as sent
CheckOutLocationAsSent(location) == location

\* line 719
CheckOutLocation(location) == IF location /= "" THEN location ELSE "Unknown"

\* a check-in that forgets the clamp
ClampedQuantityUnclamped(quantity, current_out) == quantity

\* lines 744-745
ClampedQuantity(quantity, current_out) ==
    IF quantity > current_out THEN current_out ELSE quantity

\* a check-in that calls the row IN whatever is still out
CheckInStatusAlwaysIn(new_quantity_out) == "IN"

\* lines 749-755
CheckInStatus(new_quantity_out) == IF new_quantity_out = 0 THEN "IN" ELSE "PARTIAL"

\* a check-in that always returns the row to the warehouse
CheckInLocationWarehouse(new_quantity_out, row) == "Warehouse"

\* a check-in that always keeps the location
CheckInLocationKept(new_quantity_out, row) == row.location

CheckInLocation(new_quantity_out, row) ==
    IF new_quantity_out = 0 THEN "Warehouse" ELSE row.location

\* "ALL" only when more than the whole stock is out
CheckOutMessageStrict(quantity, new_quantity_out, total_qty, new_location) ==
    IF new_quantity_out > total_qty
    THEN [form |-> "ALL {n} checked OUT to: {to}", k |-> quantity,
          m |-> new_quantity_out, n |-> total_qty, to |-> new_location]
    ELSE [form |-> "{k} checked OUT (Total out: {m}/{n}) to: {to}", k |-> quantity,
          m |-> new_quantity_out, n |-> total_qty, to |-> new_location]

\* lines 714, 717: the text as its template and the numbers put in it
CheckOutMessage(quantity, new_quantity_out, total_qty, new_location) ==
    IF new_quantity_out >= total_qty
    THEN [form |-> "ALL {n} checked OUT to: {to}", k |-> quantity,
          m |-> new_quantity_out, n |-> total_qty, to |-> new_location]
    ELSE [form |-> "{k} checked OUT (Total out: {m}/{n}) to: {to}", k |-> quantity,
          m |-> new_quantity_out, n |-> total_qty, to |-> new_location]

\* lines 752, 756
CheckInMessage(quantity, new_quantity_out, total_qty, new_location) ==
    IF new_quantity_out = 0
    THEN [form |-> "ALL {n} checked IN to warehouse", k |-> quantity,
          m |-> new_quantity_out, n |-> total_qty, to |-> new_location]
    ELSE [form |-> "{k} checked IN (Still out: {m}/{n})", k |-> quantity,
          m |-> new_quantity_out, n |-> total_qty, to |-> new_location]

\* lines 667-672
EventName(event_id) ==
    IF event_id /= NoEvent /\ event_id \in DOMAIN events THEN events[event_id] ELSE NULL

\* a check-out that replaces the entry of the pair by a fresh one
CheckOutChecklistReplace(ee, seq, event_id, code) ==
    IF event_id = NoEvent THEN [rows |-> ee, seq |-> seq]
    ELSE [rows |-> {r \in ee : ~(r.event_id = event_id /\ r.equipment_id = code)} \cup
                   {[id |-> seq + 1, event_id |-> event_id, equipment_id |-> code,
                     checked_out |-> 1, checked_in |-> 0, notes |-> NULL]},
          seq |-> seq + 1]

\* lines 722-740
CheckOutChecklist(ee, seq, event_id, code) ==
    IF event_id = NoEvent THEN [rows |-> ee, seq |-> seq]
    ELSE IF \E r \in ee : r.event_id = event_id /\ r.equipment_id = code
    THEN [rows |-> {IF r.event_id = event_id /\ r.equipment_id = code
                    THEN [r EXCEPT !.checked_out = 1] ELSE r : r \in ee},
          seq |-> seq]
    ELSE [rows |-> ee \cup {[id |-> seq + 1, event_id |-> event_id, equipment_id |-> code,
                             checked_out |-> 1, checked_in |-> 0, notes |-> NULL]},
          seq |-> seq + 1]

\* a check-in that marks the entry whatever is still out
CheckInChecklistAlways(ee, seq, event_id, code, new_quantity_out) ==
    IF event_id /= NoEvent
    THEN [rows |-> {IF r.event_id = event_id /\ r.equipment_id = code
                    THEN [r EXCEPT !.checked_in = 1] ELSE r : r \in ee},
          seq |-> seq]
    ELSE [rows |-> ee, seq |-> seq]

\* lines 761-767
CheckInChecklist(ee, seq, event_id, code, new_quantity_out) ==
    IF event_id /= NoEvent /\ new_quantity_out = 0
    THEN [rows |-> {IF r.event_id = event_id /\ r.equipment_id = code
                    THEN [r EXCEPT !.checked_in = 1] ELSE r : r \in ee},
          seq |-> seq]
    ELSE [rows |-> ee, seq |-> seq]

\* a note that ignores the quantity of the scan
HistoryNoteDefault(quantity) == 1

\* line 779: the note is f'Quantity: {quantity}', kept as the number
HistoryNote(quantity) == quantity

HistoryEntry(code, action, event_id, event_name, new_location, scanned_by, timestamp, quantity) ==
    [equipment_id |-> code, action |-> action, event_id |-> event_id,
     event_name |-> event_name, location |-> new_location,
     scanned_by |-> scanned_by, timestamp |-> timestamp, notes |-> HistoryNote(quantity)]

ScanResponse(code, row, message, new_status, new_location, new_quantity_out) ==
    [op |-> "scan_equipment", status |-> 200, error |-> "", available |-> 0, added |-> 0,
     message |-> message,
     equipment |-> [id |-> code, status |-> new_status, location |-> new_location,
                    quantity |-> row.quantity, quantity_out |-> new_quantity_out,
                    quantity_available |-> row.quantity - new_quantity_out]]

Unchanged(resp) ==
    [equipment |-> equipment, equipment_history |-> equipment_history,
     event_equipment |-> event_equipment, ee_seq |-> ee_seq, response |-> resp]

\* The tables and the response scan_equipment leaves for one request.
ScanCheckOut(code, row, location, event_id, scanned_by, quantity) ==
    LET total_qty == row.quantity
        current_out == row.quantity_out
        available == Available(row)
        new_quantity_out == current_out + quantity
        new_status == CheckOutStatus(new_quantity_out, total_qty)
        new_location == CheckOutLocation(location)
        message == CheckOutMessage(quantity, new_quantity_out, total_qty, new_location)
        cl == CheckOutChecklist(event_equipment, ee_seq, event_id, code)
    IN  IF InsufficientAvailability(quantity, available)
        THEN Unchanged([Response("scan_equipment", 400, "Only {available} available to check out")
                        EXCEPT !.available = available])
        ELSE [equipment |-> [equipment EXCEPT ![code] =
                                [@ EXCEPT !.status = new_status, !.location = new_location,
                                          !.last_updated = now, !.quantity_out = new_quantity_out]],
              equipment_history |-> Append(equipment_history,
                  HistoryEntry(code, "CHECK_OUT", event_id, EventName(event_id), new_location,
                               scanned_by, now, quantity)),
              event_equipment |-> cl.rows,
              ee_seq |-> cl.seq,
              response |-> ScanResponse(code, row, message, new_status, new_location, new_quantity_out)]

\* a check-in whose history note keeps the quantity asked for, not the clamped one
ScanCheckInNoteRequested(code, row, event_id, scanned_by, requested) ==
    LET total_qty == row.quantity
        current_out == row.quantity_out
        quantity == ClampedQuantity(requested, current_out)
        new_quantity_out == current_out - quantity
        new_status == CheckInStatus(new_quantity_out)
        new_location == CheckInLocation(new_quantity_out, row)
        message == CheckInMessage(quantity, new_quantity_out, total_qty, new_location)
        cl == CheckInChecklist(event_equipment, ee_seq, event_id, code, new_quantity_out)
    IN  [equipment |-> [equipment EXCEPT ![code] =
                            [@ EXCEPT !.status = new_status, !.location = new_location,
                                      !.last_updated = now, !.quantity_out = new_quantity_out]],
         equipment_history |-> Append(equipment_history,
             HistoryEntry(code, "CHECK_IN", event_id, EventName(event_id), new_location,
                          scanned_by, now, requested)),
         event_equipment |-> cl.rows,
         ee_seq |-> cl.seq,
         response |-> ScanResponse(code, row, message, new_status, new_location, new_quantity_out)]

ScanCheckIn(code, row, event_id, scanned_by, requested) ==
    LET total_qty == row.quantity
        current_out == row.quantity_out
        quantity == ClampedQuantity(requested, current_out)
        new_quantity_out == current_out - quantity
        new_status == CheckInStatus(new_quantity_out)
        new_location == CheckInLocation(new_quantity_out, row)
        message == CheckInMessage(quantity, new_quantity_out, total_qty, new_location)
        cl == CheckInChecklist(event_equipment, ee_seq, event_id, code, new_quantity_out)
    IN  [equipment |-> [equipment EXCEPT ![code] =
                            [@ EXCEPT !.status = new_status, !.location = new_location,
                                      !.last_updated = now, !.quantity_out = new_quantity_out]],
         equipment_history |-> Append(equipment_history,
             HistoryEntry(code, "CHECK_IN", event_id, EventName(event_id), new_location,
                          scanned_by, now, quantity)),
         event_equipment |-> cl.rows,
         ee_seq |-> cl.seq,
         response |-> ScanResponse(code, row, message, new_status, new_location, new_quantity_out)]

\* a scan that enrols the code on the event's checklist before looking the row up
ScanResultEnrolFirst(code, location, event_id, scanned_by, quantity, explicit_action) ==
    IF code = NoCode
    THEN Unchanged(Response("scan_equipment", 400, "Code is required"))
    ELSE IF code \notin DOMAIN equipment
    THEN [Unchanged(Response("scan_equipment", 404, "Equipment not found")) EXCEPT
              !.event_equipment = CheckOutChecklist(event_equipment, ee_seq, event_id, code).rows,
              !.ee_seq = CheckOutChecklist(event_equipment, ee_seq, event_id, code).seq]
    ELSE IF IsCheckingOut(equipment[code], explicit_action)
    THEN ScanCheckOut(code, equipment[code], location, event_id, scanned_by, quantity)
    ELSE ScanCheckIn(code, equipment[code], event_id, scanned_by, quantity)

ScanResult(code, location, event_id, scanned_by, quantity, explicit_action) ==
    IF code = NoCode
    THEN Unchanged(Response("scan_equipment", 400, "Code is required"))
    ELSE IF code \notin DOMAIN equipment
    THEN Unchanged(Response("scan_equipment", 404, "Equipment not found"))
    ELSE IF IsCheckingOut(equipment[code], explicit_action)
    THEN ScanCheckOut(code, equipment[code], location, event_id, scanned_by, quantity)
    ELSE ScanCheckIn(code, equipment[code], event_id, scanned_by, quantity)

scan_equipment(code, location, event_id, scanned_by, quantity, explicit_action) ==
    LET r == ScanResult(code, location, event_id, scanned_by, quantity, explicit_action)
    IN  /\ request' = [op |-> "scan_equipment", code |-> code, location |-> location,
                       event_id |-> event_id, scanned_by |-> scanned_by,
                       quantity |-> quantity, action |-> explicit_action]
        /\ equipment' = r.equipment
        /\ equipment_history' = r.equipment_history
        /\ event_equipment' = r.event_equipment
        /\ ee_seq' = r.ee_seq
        /\ response' = r.response
        /\ now' = IF r.response.status = 200 THEN now + 1 ELSE now
        /\ UNCHANGED <<events, categories>>

\* ----------------------------------------------------------- create_event
create_event(name) ==
    /\ request' = [op |-> "create_event", name |-> name]   \* the id is 'EV' + ms timestamp
    /\ events' = (now :> name) @@ events
    /\ response' = Response("create_event", 200, "")
    /\ now' = now + 1
    /\ UNCHANGED <<equipment, equipment_history, event_equipment, ee_seq, categories>>

\* ------------------------------------------------------- update_equipment
\* data: the JSON object, fields \subseteq {"name", "quantity", "category_id"}
EditQuantity(quantity) == IF quantity < 1 THEN 1 ELSE quantity      \* line 594

\* lines 585-614: the UPDATE built from the fields present
EditedRow(row, data, timestamp) ==
    [row EXCEPT
        !.name = IF "name" \in data.fields THEN data.name ELSE @,
        !.quantity = IF "quantity" \in data.fields THEN EditQuantity(data.quantity) ELSE @,
        !.category_id = IF "category_id" \in data.fields THEN data.category_id ELSE @,
        !.last_updated = timestamp]

update_equipment(equipment_id, data) ==
    /\ request' = [op |-> "update_equipment", equipment_id |-> equipment_id, data |-> data]
    /\ IF equipment_id \notin DOMAIN equipment
       THEN /\ response' = Response("update_equipment", 404, "Equipment not found")
            /\ UNCHANGED <<equipment, now>>
       ELSE IF data.fields = {}
       THEN /\ response' = Response("update_equipment", 400, "No fields to update")
            /\ UNCHANGED <<equipment, now>>
       ELSE /\ equipment' = [equipment EXCEPT
                                 ![equipment_id] = EditedRow(@, data, now)]
            /\ response' = Response("update_equipment", 200, "")
            /\ now' = now + 1
    /\ UNCHANGED <<equipment_history, event_equipment, ee_seq, events, categories>>

\* ------------------------------------------------------- delete_equipment
Without(table, id) == [k \in DOMAIN table \ {id} |-> table[k]]

\* a deletion that takes the row's history with it
delete_equipment_and_history(equipment_id) ==
    /\ request' = [op |-> "delete_equipment", equipment_id |-> equipment_id]
    /\ equipment' = Without(equipment, equipment_id)
    /\ equipment_history' = SelectSeq(equipment_history,
                                      LAMBDA e : e.equipment_id /= equipment_id)
    /\ response' = Response("delete_equipment", 200, "")
    /\ now' = now + 1
    /\ UNCHANGED <<event_equipment, ee_seq, events, categories>>

delete_equipment(equipment_id) ==
    /\ request' = [op |-> "delete_equipment", equipment_id |-> equipment_id]
    /\ equipment' = Without(equipment, equipment_id)
    /\ response' = Response("delete_equipment", 200, "")
    /\ now' = now + 1
    /\ UNCHANGED <<equipment_history, event_equipment, ee_seq, events, categories>>

\* ------------------------------ update_equipment_photo, delete_equipment_photo
update_equipment_photo(equipment_id, file) ==
    /\ request' = [op |-> "update_equipment_photo", equipment_id |-> equipment_id,
                   file |-> file]
    /\ IF file = NoFile
       THEN /\ response' = Response("update_equipment_photo", 400, "No photo provided")
            /\ UNCHANGED <<equipment, now>>
       ELSE IF file = ""
       THEN /\ response' = Response("update_equipment_photo", 400, "No photo selected")
            /\ UNCHANGED <<equipment, now>>
       ELSE IF ~allowed_file(file)
       THEN /\ response' = Response("update_equipment_photo", 400, "Invalid file type")
            /\ UNCHANGED <<equipment, now>>
       ELSE IF equipment_id \notin DOMAIN equipment
       THEN /\ response' = Response("update_equipment_photo", 404, "Equipment not found")
            /\ UNCHANGED <<equipment, now>>
       ELSE /\ equipment' = [equipment EXCEPT ![equipment_id].photo = file]
            /\ response' = Response("update_equipment_photo", 200, "")
            /\ now' = now + 1
    /\ UNCHANGED <<equipment_history, event_equipment, ee_seq, events, categories>>

delete_equipment_photo(equipment_id) ==
    /\ request' = [op |-> "delete_equipment_photo", equipment_id |-> equipment_id]
    /\ IF equipment_id \notin DOMAIN equipment
       THEN /\ response' = Response("delete_equipment_photo", 404, "Equipment not found")
            /\ UNCHANGED <<equipment, now>>
       ELSE /\ equipment' = [equipment EXCEPT ![equipment_id].photo = NULL]
            /\ response' = Response("delete_equipment_photo", 200, "")
            /\ now' = now + 1
    /\ UNCHANGED <<equipment_history, event_equipment, ee_seq, events, categories>>

\* ------------------------------------------ create_category, delete_category
create_category(name) ==
    /\ request' = [op |-> "create_category", name |-> name]
    /\ IF name = ""
       THEN /\ response' = Response("create_category", 400, "Category name is required")
            /\ UNCHANGED <<categories, now>>
       ELSE IF \E c \in DOMAIN categories : categories[c] = name      \* name TEXT UNIQUE
       THEN /\ response' = Response("create_category", 400, "Category name already exists")
            /\ UNCHANGED <<categories, now>>
       ELSE /\ categories' = (now :> name) @@ categories           \* 'CAT' + ms timestamp
            /\ response' = Response("create_category", 200, "")
            /\ now' = now + 1
    /\ UNCHANGED <<equipment, equipment_history, event_equipment, ee_seq, events>>

delete_category(category_id) ==
    /\ request' = [op |-> "delete_category", category_id |-> category_id]
    /\ IF category_id \notin DOMAIN categories
       THEN /\ response' = Response("delete_category", 404, "Category not found")
            /\ UNCHANGED <<equipment, categories, now>>
       ELSE /\ equipment' = [id \in DOMAIN equipment |->
                                 IF equipment[id].category_id = category_id
                                 THEN [equipment[id] EXCEPT !.category_id = NoCategory]
                                 ELSE equipment[id]]
            /\ categories' = Without(categories, category_id)
            /\ response' = Response("delete_category", 200, "")
            /\ now' = now + 1
    /\ UNCHANGED <<equipment_history, event_equipment, ee_seq, events>>

\* ------------------------------------------------------------ import_data
\* lines 1358-1371: one item of the list against the table so far
ImportItem(table, item) ==
    IF item.id \in DOMAIN table
    THEN [table EXCEPT ![item.id] =
             [@ EXCEPT !.name = item.name, !.status = item.status, !.location = item.location,
                       !.last_updated = item.last_updated, !.photo = item.photo]]
    ELSE (item.id :> [name |-> item.name, status |-> item.status, location |-> item.location,
                      last_updated |-> item.last_updated, photo |-> item.photo,
                      quantity |-> 1, quantity_out |-> 0,          \* column defaults
                      category_id |-> NoCategory]) @@ table

RECURSIVE ImportAll(_, _)
ImportAll(table, equipment_list) ==
    IF equipment_list = <<>> THEN table
    ELSE ImportAll(ImportItem(table, Head(equipment_list)), Tail(equipment_list))

import_data(equipment_list) ==
    /\ request' = [op |-> "import_data", equipment |-> equipment_list]
    /\ IF equipment_list = <<>>
       THEN /\ response' = Response("import_data", 400, "No equipment data provided")
            /\ UNCHANGED <<equipment, now>>
       ELSE /\ equipment' = ImportAll(equipment, equipment_list)
            /\ response' = Response("import_data", 200, "")
            /\ now' = now + 1
    /\ UNCHANGED <<equipment_history, event_equipment, ee_seq, events, categories>>

\* ------------------------------------------------------------ delete_event
\* lines 1070-1079
delete_event(event_id) ==
    /\ request' = [op |-> "delete_event", event_id |-> event_id]
    /\ event_equipment' = {r \in event_equipment : r.event_id /= event_id}
    /\ events' = Without(events, event_id)
    /\ response' = Response("delete_event", 200, "")
    /\ now' = now + 1
    /\ UNCHANGED <<equipment, equipment_history, ee_seq, categories>>

\* ------------------------------------------------------ checklist routes
\* the row INSERT INTO event_equipment (event_id, equipment_id) adds: flags 0, notes NULL
ChecklistRow(id, event_id, equipment_id) ==
    [id |-> id, event_id |-> event_id, equipment_id |-> equipment_id,
     checked_out |-> 0, checked_in |-> 0, notes |-> NULL]

OnChecklist(ee, event_id, equipment_id) ==
    \E r \in ee : r.event_id = event_id /\ r.equipment_id = equipment_id

\* lines 1082-1111
add_to_checklist(event_id, equipment_id) ==
    /\ request' = [op |-> "add_to_checklist", event_id |-> event_id,
                   equipment_id |-> equipment_id]
    /\ IF equipment_id = NoCode
       THEN /\ response' = Response("add_to_checklist", 400, "Equipment ID is required")
            /\ UNCHANGED <<event_equipment, ee_seq, now>>
       ELSE IF OnChecklist(event_equipment, event_id, equipment_id)
       THEN /\ response' = Response("add_to_checklist", 400, "Equipment already in checklist")
            /\ UNCHANGED <<event_equipment, ee_seq, now>>
       ELSE /\ event_equipment' = event_equipment \cup
                                     {ChecklistRow(ee_seq + 1, event_id, equipment_id)}
            /\ ee_seq' = ee_seq + 1
            /\ response' = Response("add_to_checklist", 200, "")
            /\ now' = now + 1
    /\ UNCHANGED <<equipment, equipment_history, events, categories>>

\* lines 1114-1123
remove_from_checklist(event_id, item_id) ==
    /\ request' = [op |-> "remove_from_checklist", event_id |-> event_id, item_id |-> item_id]
    /\ event_equipment' = {r \in event_equipment : ~(r.id = item_id /\ r.event_id = event_id)}
    /\ response' = Response("remove_from_checklist", 200, "")
    /\ now' = now + 1
    /\ UNCHANGED <<equipment, equipment_history, ee_seq, events, categories>>

\* lines 1137-1145: the columns the JSON object names, a flag as 1 if truthy else 0
UpdatedChecklistRow(r, data) ==
    [r EXCEPT
        !.checked_out = IF "checked_out" \in data.fields
                        THEN (IF data.checked_out THEN 1 ELSE 0) ELSE @,
        !.checked_in = IF "checked_in" \in data.fields
                       THEN (IF data.checked_in THEN 1 ELSE 0) ELSE @,
        !.notes = IF "notes" \in data.fields THEN data.notes ELSE @]

\* lines 1126-1158
update_checklist_item(event_id, item_id, data) ==
    /\ request' = [op |-> "update_checklist_item", event_id |-> event_id,
                   item_id |-> item_id, data |-> data]
    /\ IF data.fields = {}
       THEN /\ response' = Response("update_checklist_item", 400, "No fields to update")
            /\ UNCHANGED <<event_equipment, now>>
       ELSE /\ event_equipment' = {IF r.id = item_id /\ r.event_id = event_id
                                   THEN UpdatedChecklistRow(r, data) ELSE r :
                                      r \in event_equipment}
            /\ response' = Response("update_checklist_item", 200, "")
            /\ now' = now + 1
    /\ UNCHANGED <<equipment, equipment_history, ee_seq, events, categories>>

\* ------------------------------------------------------- template routes
\* lines 1203-1228
create_template(name) ==
    /\ request' = [op |-> "create_template", name |-> name]
    /\ IF name = ""
       THEN /\ response' = Response("create_template", 400, "Name is required")
            /\ UNCHANGED <<event_templates, now>>
       ELSE /\ event_templates' = (now :> name) @@ event_templates   \* 'TPL' + ms timestamp
            /\ response' = Response("create_template", 200, "")
            /\ now' = now + 1
    /\ UNCHANGED <<template_items, ti_seq>>

\* lines 1231-1260
add_template_item(template_id, equipment_id) ==
    /\ request' = [op |-> "add_template_item", template_id |-> template_id,
                   equipment_id |-> equipment_id]
    /\ IF equipment_id = NoCode
       THEN /\ response' = Response("add_template_item", 400, "Equipment ID is required")
            /\ UNCHANGED <<template_items, ti_seq, now>>
       ELSE IF \E i \in template_items :
                   i.template_id = template_id /\ i.equipment_id = equipment_id
       THEN /\ response' = Response("add_template_item", 400, "Equipment already in template")
            /\ UNCHANGED <<template_items, ti_seq, now>>
       ELSE /\ template_items' = template_items \cup
                   {[id |-> ti_seq + 1, template_id |-> template_id,
                     equipment_id |-> equipment_id]}
            /\ ti_seq' = ti_seq + 1
            /\ response' = Response("add_template_item", 200, "")
            /\ now' = now + 1
    /\ UNCHANGED event_templates

\* lines 1263-1272
remove_template_item(template_id, item_id) ==
    /\ request' = [op |-> "remove_template_item", template_id |-> template_id,
                   item_id |-> item_id]
    /\ template_items' = {i \in template_items :
                             ~(i.id = item_id /\ i.template_id = template_id)}
    /\ response' = Response("remove_template_item", 200, "")
    /\ now' = now + 1
    /\ UNCHANGED <<event_templates, ti_seq>>

\* lines 1275-1285
delete_template(template_id) ==
    /\ request' = [op |-> "delete_template", template_id |-> template_id]
    /\ template_items' = {i \in template_items : i.template_id /= template_id}
    /\ event_templates' = Without(event_templates, template_id)
    /\ response' = Response("delete_template", 200, "")
    /\ now' = now + 1
    /\ UNCHANGED ti_seq

\* lines 1295-1298: the equipment ids of the template's rows, in rowid order
RECURSIVE InRowidOrder(_)
InRowidOrder(rows) ==
    IF rows = {} THEN <<>>
    ELSE LET first == CHOOSE r \in rows : \A o \in rows : r.id <= o.id
         IN  <<first.equipment_id>> \o InRowidOrder(rows \ {first})

\* an apply that inserts every template item, on the checklist or not
ApplyItemsUnchecked(ee, seq, added, equipment_ids, event_id) ==
    [rows |-> ee \cup {ChecklistRow(seq + i, event_id, equipment_ids[i]) :
                          i \in 1..Len(equipment_ids)},
     seq |-> seq + Len(equipment_ids),
     added |-> added + Len(equipment_ids)]

\* lines 1300-1315: the loop over the template's items
RECURSIVE ApplyItems(_, _, _, _, _)
ApplyItems(ee, seq, added, equipment_ids, event_id) ==
    IF equipment_ids = <<>> THEN [rows |-> ee, seq |-> seq, added |-> added]
    ELSE IF OnChecklist(ee, event_id, Head(equipment_ids))
    THEN ApplyItems(ee, seq, added, Tail(equipment_ids), event_id)
    ELSE ApplyItems(ee \cup {ChecklistRow(seq + 1, event_id, Head(equipment_ids))},
                    seq + 1, added + 1, Tail(equipment_ids), event_id)

\* lines 1288-1323
apply_template_to_event(event_id, template_id) ==
    LET items == InRowidOrder({i \in template_items : i.template_id = template_id})
        r == ApplyItems(event_equipment, ee_seq, 0, items, event_id)
    IN  /\ request' = [op |-> "apply_template_to_event", event_id |-> event_id,
                       template_id |-> template_id]
        /\ event_equipment' = r.rows
        /\ ee_seq' = r.seq
        /\ response' = [Response("apply_template_to_event", 200, "") EXCEPT !.added = r.added]
        /\ now' = now + 1
        /\ UNCHANGED <<equipment, equipment_history, events, categories>>

\* ------------------------------------------- registrations and scans only
AddStep ==
    /\ UNCHANGED <<threads, templates, session>>
    /\ now <= MaxTime
    /\ \E name \in Names \ {""}, quantity \in AddQuantities : add_equipment(name, quantity, NoCategory, NoFile)

ScanStep ==
    /\ UNCHANGED <<threads, templates, session>>
    /\ now <= MaxTime
    /\ \E code \in DOMAIN equipment, site \in Sites, scanned_by \in Scanners,
          quantity \in Quantities, explicit_action \in Actions :
           scan_equipment(code, site[1], site[2], scanned_by, quantity, explicit_action)

\* a scan of a code that is no row's
ScanMissStep ==
    /\ UNCHANGED <<threads, templates, session>>
    /\ now <= MaxTime
    /\ \E event_id \in EventIds :
           scan_equipment(MaxTime + 1, "", event_id, "Unknown User", 1, "")

EventStep ==
    /\ UNCHANGED <<threads, templates, session>>
    /\ now <= MaxTime
    /\ create_event("Gala")

NextScan == AddStep \/ ScanStep \/ ScanMissStep \/ EventStep

SpecScan == Init /\ [][NextScan]_vars

\* ----------------- one item, one site, no event: longer sequences of scans
RoundStep ==
    /\ UNCHANGED <<threads, templates, session>>
    /\ now <= MaxRound
    /\ \E code \in DOMAIN equipment, quantity \in Quantities, explicit_action \in Actions :
           scan_equipment(code, "TruckA", NoEvent, "Unknown User", quantity, explicit_action)

RoundAddStep ==
    /\ UNCHANGED <<threads, templates, session>>
    /\ equipment = <<>>
    /\ \E quantity \in AddQuantities : add_equipment("Mic", quantity, NoCategory, NoFile)

NextRound == RoundAddStep \/ RoundStep

SpecRound == Init /\ [][NextRound]_vars

\* ------------------------------------------------ every equipment handler
Edits ==
    {[fields |-> {}, name |-> "", quantity |-> 0, category_id |-> NoCategory],
     [fields |-> {"category_id"}, name |-> "", quantity |-> 0, category_id |-> 1],
     [fields |-> {"name", "quantity", "category_id"}, name |-> "Amp", quantity |-> 1,
      category_id |-> NoCategory]}
    \cup {[fields |-> {"quantity"}, name |-> "", quantity |-> q, category_id |-> NoCategory] :
              q \in 0..MaxQty}

ImportItems ==
    {[id |-> id, name |-> "Mic", status |-> status, location |-> "Stage",
      last_updated |-> 0, photo |-> NULL] : id \in {1, 2}, status \in {"IN", "OUT"}}

ImportLists == {<<>>} \cup {<<item>> : item \in ImportItems}
               \cup {<<a, b>> : a \in {i \in ImportItems : i.id = 2 /\ i.status = "OUT"},
                                b \in {i \in ImportItems : i.id = 2 /\ i.status = "IN"}}

RegisterStep ==
    /\ UNCHANGED <<threads, templates, session>>
    /\ now <= MaxTime
    /\ \E quantity \in AddQuantities, file \in {NoFile, "jpg"} :
           add_equipment("Mic", quantity, NoCategory, file)

EditStep ==
    /\ UNCHANGED <<threads, templates, session>>
    /\ now <= MaxTime
    /\ \E equipment_id \in DOMAIN equipment \cup {MaxTime + 1}, data \in Edits :
           update_equipment(equipment_id, data)

DeleteStep ==
    /\ UNCHANGED <<threads, templates, session>>
    /\ now <= MaxTime
    /\ \E equipment_id \in DOMAIN equipment : delete_equipment(equipment_id)

PhotoStep ==
    /\ UNCHANGED <<threads, templates, session>>
    /\ now <= MaxTime
    /\ \E equipment_id \in DOMAIN equipment, file \in {"png", "exe"} :
           update_equipment_photo(equipment_id, file)

PhotoDeleteStep ==
    /\ UNCHANGED <<threads, templates, session>>
    /\ now <= MaxTime
    /\ \E equipment_id \in DOMAIN equipment : delete_equipment_photo(equipment_id)

CategoryStep ==
    /\ UNCHANGED <<threads, templates, session>>
    /\ now <= MaxTime
    /\ create_category("Audio")

CategoryDeleteStep ==
    /\ UNCHANGED <<threads, templates, session>>
    /\ now <= MaxTime
    /\ \E category_id \in DOMAIN categories \cup {MaxTime + 1} : delete_category(category_id)

ImportStep ==
    /\ UNCHANGED <<threads, templates, session>>
    /\ now <= MaxTime
    /\ \E equipment_list \in ImportLists : import_data(equipment_list)

ScanAnyStep ==
    /\ UNCHANGED <<threads, templates, session>>
    /\ now <= MaxTime
    /\ \E code \in DOMAIN equipment, quantity \in (-1)..MaxQty, explicit_action \in Actions :
           scan_equipment(code, "TruckA", NoEvent, "Unknown User", quantity, explicit_action)

Next ==
    \/ RegisterStep \/ EditStep \/ DeleteStep \/ PhotoStep \/ PhotoDeleteStep
    \/ CategoryStep \/ CategoryDeleteStep \/ ImportStep \/ ScanAnyStep

Spec == Init /\ [][Next]_vars

\* ------------------------- one event, one template: checklists and history
Unregistered == MaxList + 1            \* an equipment id no row has

ChecklistEdits ==
    {[fields |-> {"notes"}, checked_out |-> FALSE, checked_in |-> FALSE, notes |-> "fragile"],
     [fields |-> {"checked_out", "checked_in"}, checked_out |-> FALSE, checked_in |-> TRUE,
      notes |-> NULL]}

tables == <<equipment, equipment_history, event_equipment, ee_seq, events, categories>>

ListEventStep ==
    /\ UNCHANGED <<threads, templates, session>>
    /\ now = 1 /\ events = <<>>
    /\ create_event("Gala")

ListRegisterStep ==
    /\ UNCHANGED <<threads, templates, session>>
    /\ now <= MaxList /\ equipment = <<>>
    /\ \E quantity \in 1..MaxQty : add_equipment("Mic", quantity, NoCategory, NoFile)

ListScanStep ==
    /\ UNCHANGED <<threads, templates, session>>
    /\ now <= MaxList
    /\ \E code \in DOMAIN equipment, site \in Sites, quantity \in {1, MaxQty},
          explicit_action \in {"", "CHECK_IN"} :
           scan_equipment(code, site[1], site[2], "Unknown User", quantity, explicit_action)

ListAddStep ==
    /\ UNCHANGED <<threads, templates, session>>
    /\ now <= MaxList
    /\ \E equipment_id \in DOMAIN equipment \cup {Unregistered} :
           add_to_checklist(1, equipment_id)

ListRemoveStep ==
    /\ UNCHANGED <<threads, templates, session>>
    /\ now <= MaxList
    /\ \E r \in event_equipment : remove_from_checklist(r.event_id, r.id)

ListUpdateStep ==
    /\ UNCHANGED <<threads, templates, session>>
    /\ now <= MaxList
    /\ \E r \in event_equipment, data \in ChecklistEdits :
           update_checklist_item(r.event_id, r.id, data)

ListDeleteEventStep ==
    /\ UNCHANGED <<threads, templates, session>>
    /\ now <= MaxList
    /\ \E event_id \in DOMAIN events : delete_event(event_id)

ListDeleteStep ==
    /\ UNCHANGED <<threads, templates, session>>
    /\ now <= MaxList
    /\ \E equipment_id \in DOMAIN equipment : delete_equipment(equipment_id)

ListEditStep ==
    /\ UNCHANGED <<threads, templates, session>>
    /\ now <= MaxList
    /\ \E equipment_id \in DOMAIN equipment :
           update_equipment(equipment_id, [fields |-> {"name", "quantity"}, name |-> "Amp",
                                           quantity |-> MaxQty, category_id |-> NoCategory])

ListImportStep ==
    /\ UNCHANGED <<threads, templates, session>>
    /\ now <= MaxList
    /\ \E id \in DOMAIN equipment :
           import_data(<<[id |-> id, name |-> "Mic", status |-> "IN", location |-> "Stage",
                          last_updated |-> 0, photo |-> NULL]>>)

TemplateStep ==
    /\ UNCHANGED <<threads, tables, session>>
    /\ now <= MaxList /\ event_templates = <<>>
    /\ create_template("Stage kit")

TemplateAddStep ==
    /\ UNCHANGED <<threads, tables, session>>
    /\ now <= MaxList
    /\ \E template_id \in DOMAIN event_templates,
          equipment_id \in DOMAIN equipment \cup {Unregistered} :
           add_template_item(template_id, equipment_id)

TemplateRemoveStep ==
    /\ UNCHANGED <<threads, tables, session>>
    /\ now <= MaxList
    /\ \E i \in template_items : remove_template_item(i.template_id, i.id)

TemplateDeleteStep ==
    /\ UNCHANGED <<threads, tables, session>>
    /\ now <= MaxList
    /\ \E template_id \in DOMAIN event_templates : delete_template(template_id)

ApplyStep ==
    /\ UNCHANGED <<threads, templates, session>>
    /\ now <= MaxList
    /\ \E template_id \in DOMAIN event_templates : apply_template_to_event(1, template_id)

NextList ==
    \/ ListEventStep \/ ListRegisterStep \/ ListScanStep
    \/ ListAddStep \/ ListRemoveStep \/ ListUpdateStep \/ ListDeleteEventStep
    \/ ListDeleteStep \/ ListEditStep \/ ListImportStep
    \/ TemplateStep \/ TemplateAddStep \/ TemplateRemoveStep \/ TemplateDeleteStep
    \/ ApplyStep

SpecList == Init /\ [][NextList]_vars

\* ------------------------------------------------- overlapping requests
\* Each request thread opens its own connection (get_db). sqlite3.connect
\* leaves isolation_level at its default: a SELECT reads the committed
\* tables, the first INSERT/UPDATE opens a transaction and takes the write
\* lock, and what it wrote is seen by the other connections at conn.commit().

\* a connection opened with isolation_level=None commits each statement
AutocommitOn == TRUE

\* line 32: sqlite3.connect(DATABASE)
Autocommit == FALSE

Committed == Tables(equipment, equipment_history, event_equipment, ee_seq)

\* the tables as the connection of thread p reads them
View(p) == IF txn.owner = p THEN txn.tables ELSE Committed

\* conn.execute of an INSERT or UPDATE by thread p that leaves the tables it sees as `after`
Execute(p, after) ==
    /\ txn.owner \in {0, p}                         \* else the statement waits for the lock
    /\ IF Autocommit
       THEN /\ equipment' = after.equipment
            /\ equipment_history' = after.equipment_history
            /\ event_equipment' = after.event_equipment
            /\ ee_seq' = after.ee_seq
            /\ txn' = NoTxn
       ELSE /\ txn' = [owner |-> p, tables |-> after]
            /\ UNCHANGED <<equipment, equipment_history, event_equipment, ee_seq>>

\* lines 674-719, 742-756: what the scan decides from the row it read
ScanLocals(code, row, location, event_id, scanned_by, requested, explicit_action) ==
    LET total_qty == row.quantity
        current_out == row.quantity_out
        is_checking_out == IsCheckingOut(row, explicit_action)
        quantity == IF is_checking_out THEN requested
                    ELSE ClampedQuantity(requested, current_out)
        new_quantity_out == IF is_checking_out THEN current_out + quantity
                            ELSE current_out - quantity
        new_status == IF is_checking_out THEN CheckOutStatus(new_quantity_out, total_qty)
                      ELSE CheckInStatus(new_quantity_out)
        new_location == IF is_checking_out THEN CheckOutLocation(location)
                        ELSE CheckInLocation(new_quantity_out, row)
        message == IF is_checking_out
                   THEN CheckOutMessage(quantity, new_quantity_out, total_qty, new_location)
                   ELSE CheckInMessage(quantity, new_quantity_out, total_qty, new_location)
    IN  [NoLocal EXCEPT
            !.op = "scan_equipment",
            !.code = code, !.location = location, !.event_id = event_id,
            !.scanned_by = scanned_by, !.requested = requested,
            !.explicit_action = explicit_action, !.equipment = row,
            !.event_name = EventName(event_id), !.timestamp = now,
            !.is_checking_out = is_checking_out, !.quantity = quantity,
            !.new_quantity_out = new_quantity_out, !.new_status = new_status,
            !.new_location = new_location, !.message = message]

\* the statement after the availability test
AfterRead(l) ==
    IF l.event_id /= NoEvent /\ l.is_checking_out THEN "select_checklist"
    ELSE IF l.event_id /= NoEvent /\ l.new_quantity_out = 0 THEN "checkin_checklist"
    ELSE "update_equipment"

\* lines 645-708: the request arrives, the row is read, the direction and the amount are set
ScanRead(p, code, location, event_id, scanned_by, quantity, explicit_action) ==
    /\ UNCHANGED <<templates, session>>
    /\ pc[p] = "idle"
    /\ request' = [op |-> "scan_equipment", code |-> code, location |-> location,
                   event_id |-> event_id, scanned_by |-> scanned_by,
                   quantity |-> quantity, action |-> explicit_action]
    /\ now' = now + 1
    /\ IF code = NoCode
       THEN /\ local' = [local EXCEPT ![p] = [NoLocal EXCEPT
                            !.response = Response("scan_equipment", 400, "Code is required")]]
            /\ UNCHANGED pc
       ELSE IF code \notin DOMAIN View(p).equipment
       THEN /\ local' = [local EXCEPT ![p] = [NoLocal EXCEPT !.code = code,
                            !.response = Response("scan_equipment", 404, "Equipment not found")]]
            /\ UNCHANGED pc
       ELSE LET row == View(p).equipment[code]
                l == ScanLocals(code, row, location, event_id, scanned_by, quantity,
                                explicit_action)
            IN  IF l.is_checking_out /\ InsufficientAvailability(quantity, Available(row))
                THEN /\ local' = [local EXCEPT ![p] = [l EXCEPT !.response =
                                     [Response("scan_equipment", 400,
                                               "Only {available} available to check out")
                                      EXCEPT !.available = Available(row)]]]
                     /\ UNCHANGED pc
                ELSE /\ local' = [local EXCEPT ![p] = l]
                     /\ pc' = [pc EXCEPT ![p] = AfterRead(l)]
    /\ response' = local'[p].response
    /\ UNCHANGED <<equipment, equipment_history, event_equipment, ee_seq, events, categories, txn>>

\* lines 724-727: SELECT id FROM event_equipment
ScanSelectChecklist(p) ==
    /\ UNCHANGED <<templates, session>>
    /\ pc[p] = "select_checklist"
    /\ local' = [local EXCEPT ![p].existing =
                     \E r \in View(p).event_equipment :
                         r.event_id = local[p].event_id /\ r.equipment_id = local[p].code]
    /\ pc' = [pc EXCEPT ![p] = "write_checklist"]
    /\ UNCHANGED <<equipment, equipment_history, event_equipment, ee_seq, events, categories,
                   now, request, response, txn>>

\* lines 729-740: UPDATE ... SET checked_out = 1, or INSERT
ScanWriteChecklist(p) ==
    /\ UNCHANGED <<templates, session>>
    /\ pc[p] = "write_checklist"
    /\ LET v == View(p)
           l == local[p]
       IN  Execute(p,
             IF l.existing
             THEN [v EXCEPT !.event_equipment =
                      {IF r.event_id = l.event_id /\ r.equipment_id = l.code
                       THEN [r EXCEPT !.checked_out = 1] ELSE r : r \in v.event_equipment}]
             ELSE [v EXCEPT !.event_equipment = @ \cup
                      {[id |-> v.ee_seq + 1, event_id |-> l.event_id, equipment_id |-> l.code,
                        checked_out |-> 1, checked_in |-> 0, notes |-> NULL]},
                            !.ee_seq = @ + 1])
    /\ pc' = [pc EXCEPT ![p] = "update_equipment"]
    /\ UNCHANGED <<events, categories, now, request, response, local>>

\* lines 763-767: UPDATE ... SET checked_in = 1
ScanCheckInChecklist(p) ==
    /\ UNCHANGED <<templates, session>>
    /\ pc[p] = "checkin_checklist"
    /\ LET v == View(p)
           l == local[p]
       IN  Execute(p, [v EXCEPT !.event_equipment =
                         {IF r.event_id = l.event_id /\ r.equipment_id = l.code
                          THEN [r EXCEPT !.checked_in = 1] ELSE r : r \in v.event_equipment}])
    /\ pc' = [pc EXCEPT ![p] = "update_equipment"]
    /\ UNCHANGED <<events, categories, now, request, response, local>>

\* lines 769-773: UPDATE equipment SET status, location, last_updated, quantity_out
ScanUpdateEquipment(p) ==
    /\ UNCHANGED <<templates, session>>
    /\ pc[p] = "update_equipment"
    /\ LET v == View(p)
           l == local[p]
       IN  Execute(p,
             IF l.code \in DOMAIN v.equipment
             THEN [v EXCEPT !.equipment[l.code] =
                      [@ EXCEPT !.status = l.new_status, !.location = l.new_location,
                                !.last_updated = l.timestamp,
                                !.quantity_out = l.new_quantity_out]]
             ELSE v)
    /\ pc' = [pc EXCEPT ![p] = "insert_history"]
    /\ UNCHANGED <<events, categories, now, request, response, local>>

\* lines 775-779: INSERT INTO equipment_history
ScanInsertHistory(p) ==
    /\ UNCHANGED <<templates, session>>
    /\ pc[p] = "insert_history"
    /\ LET v == View(p)
           l == local[p]
       IN  Execute(p, [v EXCEPT !.equipment_history = Append(@,
                         HistoryEntry(l.code, IF l.is_checking_out THEN "CHECK_OUT" ELSE "CHECK_IN",
                                      l.event_id, l.event_name, l.new_location, l.scanned_by,
                                      l.timestamp, l.quantity))])
    /\ pc' = [pc EXCEPT ![p] = "commit"]
    /\ UNCHANGED <<events, categories, now, request, response, local>>

\* lines 781-796: conn.commit() and the answer
ScanCommit(p) ==
    /\ UNCHANGED <<templates, session>>
    /\ pc[p] = "commit"
    /\ LET v == View(p)
           l == local[p]
       IN  /\ equipment' = v.equipment
           /\ equipment_history' = v.equipment_history
           /\ event_equipment' = v.event_equipment
           /\ ee_seq' = v.ee_seq
           /\ local' = [local EXCEPT ![p].response =
                            ScanResponse(l.code, l.equipment, l.message, l.new_status,
                                         l.new_location, l.new_quantity_out)]
    /\ txn' = IF txn.owner = p THEN NoTxn ELSE txn
    /\ response' = local'[p].response
    /\ pc' = [pc EXCEPT ![p] = "idle"]
    /\ UNCHANGED <<events, categories, now, request>>

\* a statement of the handler raises (sqlite3.OperationalError 'database is
\* locked', a full disk, the worker is killed): the request answers 500 and
\* nothing of it was committed; its connection is not closed yet
ScanFault(p) ==
    /\ UNCHANGED <<templates, session>>
    /\ pc[p] \in {"write_checklist", "checkin_checklist", "update_equipment",
                  "insert_history", "commit"}
    /\ local' = [local EXCEPT ![p].failed_at = pc[p],
                              ![p].response = Response("scan_equipment", 500, "")]
    /\ response' = local'[p].response
    /\ pc' = [pc EXCEPT ![p] = "failed"]
    /\ UNCHANGED <<equipment, equipment_history, event_equipment, ee_seq, events, categories,
                   now, request, txn>>

\* the connection of the failed request is collected: its transaction rolls back
ScanRollback(p) ==
    /\ UNCHANGED <<templates, session>>
    /\ pc[p] = "failed"
    /\ txn' = IF txn.owner = p THEN NoTxn ELSE txn
    /\ pc' = [pc EXCEPT ![p] = "idle"]
    /\ UNCHANGED <<equipment, equipment_history, event_equipment, ee_seq, events, categories,
                   now, request, response, local>>

Quiet == txn = NoTxn /\ \A p \in Procs : pc[p] = "idle"

ConcRegisterStep ==
    /\ UNCHANGED <<threads, templates, session>>
    /\ Quiet /\ equipment = <<>>
    /\ \E quantity \in 1..MaxQty : add_equipment("Mic", quantity, NoCategory, NoFile)

ConcEventStep ==
    /\ UNCHANGED <<threads, templates, session>>
    /\ Quiet /\ events = <<>> /\ equipment = <<>>
    /\ create_event("Gala")

\* the next request goes to the first free thread
ConcScanStep(p) ==
    /\ now <= MaxConc
    /\ \A q \in Procs : q < p => pc[q] /= "idle"
    /\ \E code \in DOMAIN equipment, event_id \in DOMAIN events \cup {NoEvent},
          quantity \in {1, MaxQty}, explicit_action \in {"", "CHECK_OUT"} :
           ScanRead(p, code, "TruckA", event_id, "Unknown User", quantity, explicit_action)

NextConc ==
    \/ ConcRegisterStep
    \/ ConcEventStep
    \/ \E p \in Procs :
          \/ ConcScanStep(p)
          \/ ScanSelectChecklist(p)
          \/ ScanWriteChecklist(p)
          \/ ScanCheckInChecklist(p)
          \/ ScanUpdateEquipment(p)
          \/ ScanInsertHistory(p)
          \/ ScanCommit(p)
          \/ ScanFault(p)
          \/ ScanRollback(p)

SpecConc == Init /\ [][NextConc]_vars

\* ------------------------------------------- update_equipment in a thread
\* lines 573-611: the request arrives, the row is looked up, the SET list is built
EditRead(p, equipment_id, data) ==
    /\ UNCHANGED <<templates, session>>
    /\ pc[p] = "idle"
    /\ request' = [op |-> "update_equipment", equipment_id |-> equipment_id, data |-> data]
    /\ now' = now + 1
    /\ IF equipment_id \notin DOMAIN View(p).equipment
       THEN /\ local' = [local EXCEPT ![p] = [NoLocal EXCEPT
                            !.op = "update_equipment", !.code = equipment_id,
                            !.response = Response("update_equipment", 404,
                                                  "Equipment not found")]]
            /\ UNCHANGED pc
       ELSE IF data.fields = {}
       THEN /\ local' = [local EXCEPT ![p] = [NoLocal EXCEPT
                            !.op = "update_equipment", !.code = equipment_id,
                            !.response = Response("update_equipment", 400,
                                                  "No fields to update")]]
            /\ UNCHANGED pc
       ELSE /\ local' = [local EXCEPT ![p] = [NoLocal EXCEPT
                            !.op = "update_equipment", !.code = equipment_id,
                            !.equipment = View(p).equipment[equipment_id],
                            !.data = data, !.timestamp = now]]
            /\ pc' = [pc EXCEPT ![p] = "edit_update"]
    /\ response' = local'[p].response
    /\ UNCHANGED <<equipment, equipment_history, event_equipment, ee_seq, events, categories, txn>>

\* lines 613-614: UPDATE equipment SET ... WHERE id = ?
EditUpdate(p) ==
    /\ UNCHANGED <<templates, session>>
    /\ pc[p] = "edit_update"
    /\ LET v == View(p)
           l == local[p]
       IN  Execute(p,
             IF l.code \in DOMAIN v.equipment
             THEN [v EXCEPT !.equipment[l.code] = EditedRow(@, l.data, l.timestamp)]
             ELSE v)
    /\ pc' = [pc EXCEPT ![p] = "edit_commit"]
    /\ UNCHANGED <<events, categories, now, request, response, local>>

\* lines 615-618: conn.commit() and the answer
EditCommit(p) ==
    /\ UNCHANGED <<templates, session>>
    /\ pc[p] = "edit_commit"
    /\ LET v == View(p)
       IN  /\ equipment' = v.equipment
           /\ equipment_history' = v.equipment_history
           /\ event_equipment' = v.event_equipment
           /\ ee_seq' = v.ee_seq
    /\ local' = [local EXCEPT ![p].response = Response("update_equipment", 200, "")]
    /\ txn' = IF txn.owner = p THEN NoTxn ELSE txn
    /\ response' = local'[p].response
    /\ pc' = [pc EXCEPT ![p] = "idle"]
    /\ UNCHANGED <<events, categories, now, request>>

\* ----------------------------------- scans and edits of one row, overlapping
RaceEdits ==
    {[fields |-> {"name"}, name |-> "Amp", quantity |-> 0, category_id |-> NoCategory]}
    \cup {[fields |-> {"quantity"}, name |-> "", quantity |-> q, category_id |-> NoCategory] :
             q \in {1, MaxQty}}

RaceRegisterStep ==
    /\ UNCHANGED <<threads, templates, session>>
    /\ Quiet /\ equipment = <<>>
    /\ \E quantity \in 1..MaxQty : add_equipment("Mic", quantity, NoCategory, NoFile)

RaceScanStep(p) ==
    /\ now <= MaxConc
    /\ \A q \in Procs : q < p => pc[q] /= "idle"
    /\ \E code \in DOMAIN equipment, quantity \in {1, MaxQty},
          explicit_action \in {"", "CHECK_IN"} :
           ScanRead(p, code, "TruckA", NoEvent, "Unknown User", quantity, explicit_action)

RaceEditStep(p) ==
    /\ now <= MaxConc
    /\ \A q \in Procs : q < p => pc[q] /= "idle"
    /\ \E equipment_id \in DOMAIN equipment, data \in RaceEdits :
           EditRead(p, equipment_id, data)

NextRace ==
    \/ RaceRegisterStep
    \/ \E p \in Procs :
          \/ RaceScanStep(p)
          \/ ScanUpdateEquipment(p)
          \/ ScanInsertHistory(p)
          \/ ScanCommit(p)
          \/ RaceEditStep(p)
          \/ EditUpdate(p)
          \/ EditCommit(p)

SpecRace == Init /\ [][NextRace]_vars

\* ---------------------------------------------- sessions and login_required
\* lines 227-267: a login with the right password puts user_id in the session
login(valid) ==
    /\ request' = [op |-> "login", valid |-> valid]
    /\ IF valid
       THEN /\ session' = AdminUser
            /\ response' = Response("login", 200, "")
       ELSE /\ response' = Response("login", 401, "Invalid username or password")
            /\ UNCHANGED session
    /\ UNCHANGED <<tables, now>>

\* lines 271-275: session.clear()
logout ==
    /\ request' = [op |-> "logout"]
    /\ session' = NoUser
    /\ response' = Response("logout", 200, "")
    /\ UNCHANGED <<tables, now>>

\* a def statement: the function as written, with no session check around it
Handler(endpoint) == [endpoint |-> endpoint, login_required |-> FALSE]

\* lines 37-44: the function login_required returns checks the session first
login_required(f) == [f EXCEPT !.login_required = TRUE]

\* @login_required is written above @app.route (lines 436-437, 571-572,
\* 621-622, 643-644): decorators apply from the bottom, so app.route runs
\* first, stores the function it is handed in the URL map and returns it;
\* login_required then wraps it for the module-level name only
view_functions(endpoint) == Handler(endpoint)

\* Flask calls what the URL map holds; lines 41-42 run only inside the wrapper
Dispatch(endpoint, body) ==
    IF view_functions(endpoint).login_required /\ session = NoUser
    THEN /\ request' = [op |-> endpoint]
         /\ response' = Response(endpoint, 401, "Authentication required")
         /\ UNCHANGED <<tables, now>>
    ELSE body

\* the routes of the model that carry @login_required
LoginRequiredRoutes ==
    {"add_equipment", "update_equipment", "delete_equipment", "scan_equipment"}

LoginStep ==
    /\ UNCHANGED <<threads, templates>>
    /\ \E valid \in BOOLEAN : login(valid)

LogoutStep ==
    /\ UNCHANGED <<threads, templates>>
    /\ logout

AuthAddStep ==
    /\ UNCHANGED <<threads, templates, session>>
    /\ now <= MaxTime
    /\ \E quantity \in 1..MaxQty :
           Dispatch("add_equipment", add_equipment("Mic", quantity, NoCategory, NoFile))

AuthEditStep ==
    /\ UNCHANGED <<threads, templates, session>>
    /\ now <= MaxTime
    /\ \E equipment_id \in DOMAIN equipment, data \in RaceEdits :
           Dispatch("update_equipment", update_equipment(equipment_id, data))

AuthDeleteStep ==
    /\ UNCHANGED <<threads, templates, session>>
    /\ now <= MaxTime
    /\ \E equipment_id \in DOMAIN equipment :
           Dispatch("delete_equipment", delete_equipment(equipment_id))

AuthScanStep ==
    /\ UNCHANGED <<threads, templates, session>>
    /\ now <= MaxTime
    /\ \E code \in DOMAIN equipment, quantity \in 1..MaxQty, explicit_action \in Actions :
           Dispatch("scan_equipment",
                    scan_equipment(code, "TruckA", NoEvent, "Unknown User", quantity,
                                   explicit_action))

NextAuth ==
    \/ LoginStep
    \/ LogoutStep
    \/ AuthAddStep
    \/ AuthEditStep
    \/ AuthDeleteStep
    \/ AuthScanStep

SpecAuth == Init /\ [][NextAuth]_vars

\* ================================================================ claims
IsScan(req) == req.op = "scan_equipment"

ScanOfRow(req) == IsScan(req) /\ req.code \in DOMAIN equipment

LastEntry(history) == history[Len(history)]

\* C3: a check-out scan that asks for more than quantity - quantity_out gets
\* the 400 "Only <available> available to check out" response with the actual
\* available count, and the equipment table (status, location, quantity_out,
\* last_updated), the history log and the event checklist stay as they were.
C3_InsufficientCheckOutMutatesNothing ==
    [][ (/\ ScanOfRow(request')
         /\ IsCheckingOut(equipment[request'.code], request'.action)
         /\ request'.quantity >
                equipment[request'.code].quantity - equipment[request'.code].quantity_out)
        => (/\ response'.status = 400
            /\ response'.error = "Only {available} available to check out"
            /\ response'.available =
                   equipment[request'.code].quantity - equipment[request'.code].quantity_out
            /\ equipment' = equipment
            /\ equipment_history' = equipment_history
            /\ event_equipment' = event_equipment
            /\ ee_seq' = ee_seq) ]_vars

\* a check-out for an event was refused for lack of availability, on a row that
\* earlier scans had already changed
C3_Witness ==
    /\ IsScan(request) /\ request.event_id /= NoEvent
    /\ response.status = 400
    /\ response.error = "Only {available} available to check out"
    /\ equipment_history /= <<>>

\* C6: a successful scan appends exactly one history entry, for the scanned
\* code; its action is the direction performed and its note the amount moved
\* in that direction (on a check-in that asked for more than quantity_out:
\* the old quantity_out, not the request).
C6_OneHistoryEntryPerScan ==
    [][ (IsScan(request') /\ response'.status = 200)
        => LET code == request'.code
               out == IsCheckingOut(equipment[code], request'.action)
               h == LastEntry(equipment_history')
           IN  /\ Len(equipment_history') = Len(equipment_history) + 1
               /\ SubSeq(equipment_history', 1, Len(equipment_history)) = equipment_history
               /\ h.equipment_id = code
               /\ h.action = IF out THEN "CHECK_OUT" ELSE "CHECK_IN"
               /\ h.notes = IF out
                            THEN equipment'[code].quantity_out - equipment[code].quantity_out
                            ELSE equipment[code].quantity_out - equipment'[code].quantity_out
               /\ (~out /\ request'.quantity > equipment[code].quantity_out)
                     => h.notes = equipment[code].quantity_out ]_vars

\* a check-in that asked for more than was out has been logged with the
\* smaller amount that came back
C6_Witness ==
    /\ IsScan(request) /\ response.status = 200
    /\ LastEntry(equipment_history).action = "CHECK_IN"
    /\ LastEntry(equipment_history).notes > 0
    /\ LastEntry(equipment_history).notes < request.quantity

\* C8: a check-in that asks for more than quantity_out succeeds and leaves
\* quantity_out = 0 and status IN.
C8_CheckInClamps ==
    [][ (/\ ScanOfRow(request')
         /\ ~IsCheckingOut(equipment[request'.code], request'.action)
         /\ request'.quantity > equipment[request'.code].quantity_out)
        => (/\ response'.status = 200
            /\ equipment'[request'.code].quantity_out = 0
            /\ equipment'[request'.code].status = "IN") ]_vars

\* an explicit check-in of more than the whole stock has brought a row back in
C8_Witness ==
    /\ ScanOfRow(request) /\ request.action = "CHECK_IN"
    /\ request.quantity > equipment[request.code].quantity
    /\ response.status = 200
    /\ response.message.k > 0
    /\ equipment[request.code].quantity_out = 0
    /\ equipment[request.code].status = "IN"

\* C9: a scan of a code that is no row's changes no table, whatever event id
\* it carries, and a non-empty such code gets 404 "Equipment not found".
C9_UnknownCodeMutatesNothing ==
    [][ (IsScan(request') /\ request'.code \notin DOMAIN equipment)
        => (/\ request'.code /= NoCode
                  => (response'.status = 404 /\ response'.error = "Equipment not found")
            /\ response'.status /= 200
            /\ equipment' = equipment
            /\ equipment_history' = equipment_history
            /\ event_equipment' = event_equipment
            /\ ee_seq' = ee_seq) ]_vars

\* an unknown code was scanned for an event, with rows and history in place
C9_Witness ==
    /\ IsScan(request) /\ request.code \notin DOMAIN equipment
    /\ request.event_id /= NoEvent
    /\ response.status = 404
    /\ equipment /= <<>>
    /\ equipment_history /= <<>>

RECURSIVE SumNotes(_)
SumNotes(h) == IF h = <<>> THEN 0 ELSE Head(h).notes + SumNotes(Tail(h))

HistoryOf(code) == SelectSeq(equipment_history, LAMBDA e : e.equipment_id = code)

\* h is check-outs that sum to quantity followed by check-ins that sum to quantity
IsRoundTrip(h, quantity) ==
    \E k \in 1..(Len(h) - 1) :
        /\ \A i \in 1..k : h[i].action = "CHECK_OUT"
        /\ \A i \in (k + 1)..Len(h) : h[i].action = "CHECK_IN"
        /\ SumNotes(SubSeq(h, 1, k)) = quantity
        /\ SumNotes(SubSeq(h, k + 1, Len(h))) = quantity

\* C7: a registered row (quantity_out 0) whose scans so far are check-outs
\* summing to its quantity followed by check-ins summing to its quantity has
\* status IN, location "Warehouse" and quantity_out 0.
C7_RoundTrip ==
    \A code \in DOMAIN equipment :
        IsRoundTrip(HistoryOf(code), equipment[code].quantity)
        => /\ equipment[code].status = "IN"
           /\ equipment[code].location = "Warehouse"
           /\ equipment[code].quantity_out = 0

\* two check-outs and two check-ins have made the round trip
C7_Witness ==
    \E code \in DOMAIN equipment :
        /\ IsRoundTrip(HistoryOf(code), equipment[code].quantity)
        /\ Len(HistoryOf(code)) >= 4
        /\ HistoryOf(code)[2].action = "CHECK_OUT"

\* C1: in every reachable state each equipment row has status IN exactly when
\* quantity_out is 0, status OUT exactly when quantity_out equals quantity, and
\* status PARTIAL exactly when 0 < quantity_out < quantity.
C1_StatusMatchesQuantityOut ==
    \A id \in DOMAIN equipment :
        LET row == equipment[id] IN
        /\ (row.status = "IN") <=> (row.quantity_out = 0)
        /\ (row.status = "OUT") <=> (row.quantity_out = row.quantity)
        /\ (row.status = "PARTIAL") <=> (0 < row.quantity_out /\ row.quantity_out < row.quantity)

\* C2: in every reachable state each equipment row has quantity >= 1 and
\* 0 <= quantity_out <= quantity.
C2_QuantityOutWithinBounds ==
    \A id \in DOMAIN equipment :
        LET row == equipment[id] IN
        /\ row.quantity >= 1
        /\ 0 <= row.quantity_out
        /\ row.quantity_out <= row.quantity

NonScanOps ==
    {"update_equipment", "update_equipment_photo", "delete_equipment_photo",
     "import_data", "delete_category"}

\* C10: every operation other than a scan (edit, photo update and delete,
\* import, category deletion) leaves status, location and quantity_out of
\* every existing equipment row unchanged.
C10_OnlyScanChangesStatus ==
    [][request'.op \in NonScanOps =>
          \A id \in DOMAIN equipment \cap DOMAIN equipment' :
              /\ equipment'[id].status = equipment[id].status
              /\ equipment'[id].location = equipment[id].location
              /\ equipment'[id].quantity_out = equipment[id].quantity_out]_vars

\* check-outs of one unit that have been answered and had read the same version
\* of the same row as thread p
SameRead(p) ==
    {q \in Procs : /\ pc[q] = "idle"
                   /\ local[q].response.status \in {200, 400}
                   /\ local[q].is_checking_out
                   /\ local[q].requested = 1
                   /\ local[q].code = local[p].code
                   /\ local[q].equipment = local[p].equipment}

\* C4: of the overlapping check-out scans of quantity 1 against one item with
\* one unit available, exactly one succeeds and the others get the
\* insufficient-availability error; quantity_out never exceeds quantity.
C4_ExactlyOneCheckOutSucceeds ==
    /\ \A id \in DOMAIN equipment : equipment[id].quantity_out <= equipment[id].quantity
    /\ \A p \in Procs :
          (p \in SameRead(p) /\ Available(local[p].equipment) = 1) =>
              /\ Cardinality({q \in SameRead(p) : local[q].response.status = 200}) = 1
              /\ \A q \in SameRead(p) :
                     local[q].response.status = 400 =>
                         local[q].response.error = "Only {available} available to check out"

\* C5: in every committed state each row a scan has updated carries the
\* timestamp and location of its latest history entry, and a row with no
\* history entry is as registered: neither write of a scan shows without
\* the other, also after a failure between the two.
C5_ScanWritesAtomic ==
    \A id \in DOMAIN equipment :
        LET h == HistoryOf(id)
            row == equipment[id]
        IN  IF h = <<>>
            THEN row.status = "IN" /\ row.location = "Warehouse" /\ row.quantity_out = 0
            ELSE /\ h[Len(h)].timestamp = row.last_updated
                 /\ h[Len(h)].location = row.location

\* a scan failed after its UPDATE of the row and before its INSERT into the
\* history, and its transaction is gone
C5_Witness ==
    \E p \in Procs :
        /\ pc[p] = "idle"
        /\ local[p].failed_at = "insert_history"
        /\ local[p].response.status = 500
        /\ txn = NoTxn
        /\ local[p].code \in DOMAIN equipment

\* C11: a scan of quantity 0 on an existing row, in either direction and from
\* any status, succeeds and leaves the row's quantity_out and status as they were.
C11_ZeroScanKeepsStatus ==
    [][ (ScanOfRow(request') /\ request'.quantity = 0)
        => (/\ response'.status = 200
            /\ equipment'[request'.code].quantity_out = equipment[request'.code].quantity_out
            /\ equipment'[request'.code].status = equipment[request'.code].status) ]_vars

\* the direction the claim C13 gives for a row and an explicit action
DirectionIsOut(row, action) ==
    IF action = "CHECK_OUT" THEN TRUE
    ELSE IF action = "CHECK_IN" THEN FALSE
    ELSE \/ row.status = "IN"
         \/ row.status = "PARTIAL" /\ row.quantity - row.quantity_out > 0

\* C13: an explicit CHECK_OUT or CHECK_IN decides the direction whatever the
\* status; with no explicit action the scan checks out from IN, checks in from
\* OUT, and from PARTIAL checks out if something is available and checks in
\* otherwise. A check-out either succeeds as CHECK_OUT or is refused for lack
\* of availability; a check-in succeeds as CHECK_IN.
C13_DirectionSelection ==
    [][ ScanOfRow(request')
        => IF DirectionIsOut(equipment[request'.code], request'.action)
           THEN \/ /\ response'.status = 200
                   /\ LastEntry(equipment_history').action = "CHECK_OUT"
                   /\ Len(equipment_history') = Len(equipment_history) + 1
                \/ /\ response'.status = 400
                   /\ response'.error = "Only {available} available to check out"
           ELSE /\ response'.status = 200
                /\ LastEntry(equipment_history').action = "CHECK_IN"
                /\ Len(equipment_history') = Len(equipment_history) + 1 ]_vars

\* a scan with no explicit action found a PARTIAL row with units available
\* and checked more out
C13_Witness ==
    /\ ScanOfRow(request) /\ request.action = ""
    /\ response.status = 200
    /\ LastEntry(equipment_history).action = "CHECK_OUT"
    /\ response.message.k >= 1
    /\ response.message.m > response.message.k

\* C14: a successful check-out of k units sets quantity_out to the old
\* quantity_out + k, status to OUT if that reaches quantity and to PARTIAL
\* otherwise, and location to the supplied location, or "Unknown" when it is
\* empty.
C14_CheckOutResult ==
    [][ (/\ ScanOfRow(request')
         /\ IsCheckingOut(equipment[request'.code], request'.action)
         /\ response'.status = 200)
        => LET old == equipment[request'.code]
               new == equipment'[request'.code]
           IN  /\ new.quantity_out = old.quantity_out + request'.quantity
               /\ new.quantity = old.quantity
               /\ new.status = IF new.quantity_out >= new.quantity THEN "OUT" ELSE "PARTIAL"
               /\ new.location = IF request'.location = "" THEN "Unknown"
                                 ELSE request'.location ]_vars

\* one unit of several went out with no location given
C14_Witness ==
    /\ ScanOfRow(request) /\ request.location = "" /\ request.quantity >= 1
    /\ response.status = 200
    /\ LastEntry(equipment_history).action = "CHECK_OUT"
    /\ equipment[request.code].status = "PARTIAL"
    /\ equipment[request.code].location = "Unknown"

\* C15: a check-in sets quantity_out to the old quantity_out minus the clamped
\* quantity; at 0 the status is IN and the location "Warehouse", otherwise the
\* status is PARTIAL and the location is the one the row had, whatever
\* location the request carries.
C15_CheckInResult ==
    [][ (/\ ScanOfRow(request')
         /\ ~IsCheckingOut(equipment[request'.code], request'.action))
        => LET old == equipment[request'.code]
               new == equipment'[request'.code]
               clamped == IF request'.quantity > old.quantity_out THEN old.quantity_out
                          ELSE request'.quantity
           IN  /\ response'.status = 200
               /\ new.quantity_out = old.quantity_out - clamped
               /\ IF new.quantity_out = 0
                  THEN new.status = "IN" /\ new.location = "Warehouse"
                  ELSE new.status = "PARTIAL" /\ new.location = old.location ]_vars

\* part of what was out on the truck came back in a scan that named no
\* location: the row is still on the truck
C15_Witness ==
    /\ ScanOfRow(request) /\ request.location = ""
    /\ response.status = 200
    /\ LastEntry(equipment_history).action = "CHECK_IN"
    /\ LastEntry(equipment_history).notes >= 1
    /\ equipment[request.code].status = "PARTIAL"
    /\ equipment[request.code].location = "TruckA"

\* The message of C18 for a finished scan, with the wording `partial_in` for a
\* partial check-in. A text is compared as its template and the numbers put in
\* it: "ALL N checked OUT" is the template that starts with these words.
MessageAsClaimed(direction, new, moved, partial_in, msg) ==
    /\ msg.n = new.quantity
    /\ msg.m = new.quantity_out
    /\ msg.k = moved
    /\ msg.form = IF direction = "CHECK_OUT"
                  THEN IF new.status = "OUT" THEN "ALL {n} checked OUT to: {to}"
                       ELSE "{k} checked OUT (Total out: {m}/{n}) to: {to}"
                  ELSE IF new.status = "IN" THEN "ALL {n} checked IN to warehouse"
                       ELSE partial_in

\* C18 as stated: the message of a successful scan is "ALL N checked OUT" /
\* "ALL N checked IN" exactly when the resulting status is OUT / IN, and
\* otherwise "K checked OUT (Total out: M/N)" / "K checked IN (Total out: M/N)".
\* Stated for scans of one unit or more.
C18_MessageFormsAsStated ==
    [][ (ScanOfRow(request') /\ request'.quantity >= 1 /\ response'.status = 200)
        => MessageAsClaimed(LastEntry(equipment_history').action,
                            equipment'[request'.code],
                            LastEntry(equipment_history').notes,
                            "{k} checked IN (Total out: {m}/{n})",
                            response'.message) ]_vars

\* C18: the message of a successful scan is "ALL N checked OUT" / "ALL N
\* checked IN" (N the total quantity) exactly when the resulting status is
\* OUT / IN, and otherwise "K checked OUT (Total out: M/N)" for a check-out and
\* "K checked IN (Still out: M/N)" for a check-in, K the amount moved and M the
\* resulting quantity_out.
C18_MessageForms ==
    [][ (ScanOfRow(request') /\ response'.status = 200)
        => MessageAsClaimed(LastEntry(equipment_history').action,
                            equipment'[request'.code],
                            LastEntry(equipment_history').notes,
                            "{k} checked IN (Still out: {m}/{n})",
                            response'.message) ]_vars

\* a partial check-in has been answered
C18_Witness ==
    /\ ScanOfRow(request) /\ response.status = 200
    /\ LastEntry(equipment_history).action = "CHECK_IN"
    /\ equipment[request.code].status = "PARTIAL"
    /\ response.message.k >= 1
    /\ response.message.m >= 1

\* C12: the history log only grows at its end: every request leaves the
\* entries already logged as they were, in place; a scan that fails logs
\* nothing.
C12_HistoryAppendOnly ==
    [][ /\ Len(equipment_history') >= Len(equipment_history)
        /\ SubSeq(equipment_history', 1, Len(equipment_history)) = equipment_history
        /\ (IsScan(request') /\ response'.status /= 200)
              => equipment_history' = equipment_history ]_vars

\* a row with logged scans has been deleted and its entries are still there
C12_Witness ==
    /\ request.op = "delete_equipment"
    /\ \E i \in 1..Len(equipment_history) :
           /\ equipment_history[i].equipment_id = request.equipment_id
           /\ equipment_history[i].event_id /= NoEvent
    /\ request.equipment_id \notin DOMAIN equipment

\* the checklist rows of one (event, equipment) pair
Entries(ee, event_id, equipment_id) ==
    {r \in ee : r.event_id = event_id /\ r.equipment_id = equipment_id}

\* C16: after a successful check-out with an event id the pair (event,
\* equipment) has exactly one checklist entry and it has checked_out = 1: an
\* entry that was there is otherwise as it was (checked_in, notes), a new one
\* has checked_in = 0; the other entries are untouched. Without an event id the
\* checklist is unchanged.
C16_CheckOutChecklist ==
    [][ (/\ ScanOfRow(request')
         /\ IsCheckingOut(equipment[request'.code], request'.action)
         /\ response'.status = 200)
        => LET before == Entries(event_equipment, request'.event_id, request'.code)
               after == Entries(event_equipment', request'.event_id, request'.code)
           IN  IF request'.event_id = NoEvent
               THEN event_equipment' = event_equipment
               ELSE /\ Cardinality(after) = 1
                    /\ \A r \in after :
                          /\ r.checked_out = 1
                          /\ before /= {} => [r EXCEPT !.checked_out = 0] \in
                                                {[b EXCEPT !.checked_out = 0] : b \in before}
                          /\ before = {} => (r.checked_in = 0 /\ r.notes = NULL)
                    /\ event_equipment' \ after = event_equipment \ before ]_vars

\* a check-out for the event found the row on the checklist with a note and
\* not yet checked out
C16_Witness ==
    /\ ScanOfRow(request) /\ request.event_id /= NoEvent
    /\ response.status = 200
    /\ LastEntry(equipment_history).action = "CHECK_OUT"
    /\ \E r \in Entries(event_equipment, request.event_id, request.code) :
           r.checked_out = 1 /\ r.notes = "fragile"

\* C17: a check-in with an event id sets checked_in = 1 on the entries of
\* (event, equipment) exactly when the resulting quantity_out is 0; otherwise,
\* and without an event id, the checklist is unchanged. No entry is created and
\* no checked_out flag changes.
C17_CheckInChecklist ==
    [][ (/\ ScanOfRow(request')
         /\ ~IsCheckingOut(equipment[request'.code], request'.action))
        => /\ response'.status = 200
           /\ ee_seq' = ee_seq
           /\ event_equipment' =
                 IF request'.event_id /= NoEvent /\ equipment'[request'.code].quantity_out = 0
                 THEN {IF r \in Entries(event_equipment, request'.event_id, request'.code)
                       THEN [r EXCEPT !.checked_in = 1] ELSE r : r \in event_equipment}
                 ELSE event_equipment ]_vars

\* part of what went out for the event came back: its entry is checked out
\* and not checked in
C17_Witness ==
    /\ ScanOfRow(request) /\ request.event_id /= NoEvent
    /\ response.status = 200
    /\ LastEntry(equipment_history).action = "CHECK_IN"
    /\ LastEntry(equipment_history).notes >= 1
    /\ equipment[request.code].quantity_out > 0
    /\ \E r \in Entries(event_equipment, request.event_id, request.code) :
           r.checked_out = 1 /\ r.checked_in = 0

\* the equipment ids of a template
TemplateIds(template_id) ==
    {i.equipment_id : i \in {j \in template_items : j.template_id = template_id}}

\* C19: applying a template to an event adds one entry, with both flags 0, for
\* each equipment id of the template that has none on the event's checklist,
\* keeps every entry that was there, and reports how many it added; the same
\* application made again right after adds nothing and reports 0.
C19_ApplyTemplate ==
    [][ request'.op = "apply_template_to_event"
        => LET event_id == request'.event_id
               ids == TemplateIds(request'.template_id)
               missing == {c \in ids : ~OnChecklist(event_equipment, event_id, c)}
               new == event_equipment' \ event_equipment
           IN  /\ event_equipment \subseteq event_equipment'
               /\ \A r \in new : /\ r.event_id = event_id
                                 /\ r.equipment_id \in missing
                                 /\ r.checked_out = 0 /\ r.checked_in = 0
               /\ \A c \in missing : Cardinality({r \in new : r.equipment_id = c}) = 1
               /\ response'.added = Cardinality(missing)
               /\ request = request' => (event_equipment' = event_equipment
                                         /\ response'.added = 0) ]_vars

\* a template was applied to an event whose checklist held a checked-out
\* entry: the template's item was added beside it
C19_Witness ==
    /\ request.op = "apply_template_to_event"
    /\ response.added >= 1
    /\ \E r \in event_equipment : r.event_id = request.event_id /\ r.checked_out = 1

\* the status/quantity_out invariant of the data model, for one row
RowConsistent(row) ==
    /\ (row.status = "IN") <=> (row.quantity_out = 0)
    /\ (row.status = "OUT") <=> (row.quantity_out = row.quantity)
    /\ (row.status = "PARTIAL") <=> (0 < row.quantity_out /\ row.quantity_out < row.quantity)

\* C20: when a scan and an edit of the same row have both completed, in
\* whatever order their statements ran, and the row each of them read
\* satisfied the status/quantity_out invariant, the row satisfies it.
C20_ScanEditKeepsInvariant ==
    \A p, q \in Procs :
        (/\ pc[p] = "idle" /\ pc[q] = "idle" /\ txn = NoTxn
         /\ local[p].op = "scan_equipment" /\ local[p].response.status = 200
         /\ local[q].op = "update_equipment" /\ local[q].response.status = 200
         /\ local[p].code = local[q].code
         /\ local[p].code \in DOMAIN equipment
         /\ RowConsistent(local[p].equipment)
         /\ RowConsistent(local[q].equipment))
        => RowConsistent(equipment[local[p].code])

\* the entries of one action in a history
EntriesOf(h, action) == SelectSeq(h, LAMBDA e : e.action = action)

\* C21: every row registered through add_equipment and changed only by
\* scans run one after another has quantity_out equal to the sum of the
\* quantities noted in its CHECK_OUT history entries minus the sum of the
\* quantities noted in its CHECK_IN history entries.
C21_AuditSum ==
    \A code \in DOMAIN equipment :
        equipment[code].quantity_out =
            SumNotes(EntriesOf(HistoryOf(code), "CHECK_OUT"))
            - SumNotes(EntriesOf(HistoryOf(code), "CHECK_IN"))

\* a check-in that asked for more than was out has been clamped and noted,
\* after an earlier check-out and an earlier partial check-in
C21_Witness ==
    /\ IsScan(request) /\ response.status = 200
    /\ request.code \in DOMAIN equipment
    /\ LET h == HistoryOf(request.code)
       IN  /\ Len(h) >= 3
           /\ LastEntry(h).action = "CHECK_IN"
           /\ LastEntry(h).notes >= 1
           /\ request.quantity > LastEntry(h).notes
           /\ Len(EntriesOf(h, "CHECK_IN")) >= 2
           /\ Len(EntriesOf(h, "CHECK_OUT")) >= 1

\* C22: after any sequence of add_equipment and scan operations, every
\* equipment row whose status is IN has location "Warehouse".
C22_InMeansWarehouse ==
    \A code \in DOMAIN equipment :
        equipment[code].status = "IN" => equipment[code].location = "Warehouse"

\* a row that went out to a site and came back whole is IN again
C22_Witness ==
    /\ IsScan(request) /\ response.status = 200
    /\ request.code \in DOMAIN equipment
    /\ equipment[request.code].status = "IN"
    /\ LET h == HistoryOf(request.code)
       IN  /\ Len(h) >= 2
           /\ h[1].action = "CHECK_OUT" /\ h[1].location = "TruckA"
           /\ LastEntry(h).action = "CHECK_IN"

\* C23: a request to a route marked with login_required, the scan endpoint
\* included, made with no user_id in the session is answered 401
\* "Authentication required" and changes no table.
C23_LoginRequired ==
    [][ (session = NoUser /\ request'.op \in LoginRequiredRoutes)
        => (/\ response'.status = 401
            /\ response'.error = "Authentication required"
            /\ UNCHANGED <<tables, templates>>) ]_vars

====
